---- MODULE Spec2Model ----
(***************************************************************************)
(* Model of browserless_scraper.py: the single function                    *)
(* scrape_with_browserless(dsn), a linear pipeline                         *)
(*   credential check -> fetch -> parse -> header regex -> positional      *)
(*   field map -> risk classification -> document collection -> assemble   *)
(* wrapped in try / except requests.Timeout / except Exception.            *)
(*                                                                         *)
(* Python strings are modelled as sequences of one-character strings, so   *)
(* that strip(), upper(), lower(), startswith(), substring tests, string   *)
(* concatenation and the two regular expressions are computed, not         *)
(* assumed.  None is a value that is no character sequence.     *)
(***************************************************************************)
EXTENDS Integers, Sequences, FiniteSets

VARIABLES
    BROWSERLESS_API_KEY, \* module-level credential read from the environment
    dsn,                 \* the argument of scrape_with_browserless
    pc,                  \* position of the call in the pipeline
    response,            \* outcome of requests.post
    soup,                \* the parsed page (text, inputs, anchors), None before
    page_text,           \* soup.get_text()
    site_info,           \* local dict site_info
    risk_flags,          \* local dict risk_flags
    documents,           \* local list documents
    result,              \* the returned dict, None until the call returns
    requests_made,       \* number of HTTP requests issued so far
    ran,                 \* the stages after the fetch that have run to completion
    exc                  \* the exception raised inside the try block, if any

vars == <<BROWSERLESS_API_KEY, dsn, pc, response, soup, page_text, site_info,
          risk_flags, documents, result, requests_made, ran, exc>>

(***************************************************************************)
(* Bounds of the model.                                                    *)
(***************************************************************************)
MaxInputs == 18        \* largest number of form-control inputs on a page
MaxAnchors == 3        \* largest number of anchors on a page

None == <<"None">>

(***************************************************************************)
(* Characters and elementary string functions.                             *)
(***************************************************************************)
Uppers ==
    <<"A", "B", "C", "D", "E", "F", "G", "H", "I", "J", "K", "L", "M",
      "N", "O", "P", "Q", "R", "S", "T", "U", "V", "W", "X", "Y", "Z">>

Lowers ==
    <<"a", "b", "c", "d", "e", "f", "g", "h", "i", "j", "k", "l", "m",
      "n", "o", "p", "q", "r", "s", "t", "u", "v", "w", "x", "y", "z">>

Digits ==
    <<"0", "1", "2", "3", "4", "5", "6", "7", "8", "9">>

IsUpper(c) == \E i \in 1..26 : Uppers[i] = c

IsDigit(c) == \E i \in 1..10 : Digits[i] = c

Spaces == {" ", "\n", "\t"}

IsSpace(c) == c \in Spaces

DigitSet == {Digits[i] : i \in 1..10}

UpperChar(c) ==
    IF \E i \in 1..26 : Lowers[i] = c
    THEN Uppers[CHOOSE i \in 1..26 : Lowers[i] = c]
    ELSE c

LowerChar(c) ==
    IF \E i \in 1..26 : Uppers[i] = c
    THEN Lowers[CHOOSE i \in 1..26 : Uppers[i] = c]
    ELSE c

upper(s) == [i \in 1..Len(s) |-> UpperChar(s[i])]

lower(s) == [i \in 1..Len(s) |-> LowerChar(s[i])]

\* str.strip(): drop the leading and the trailing whitespace
strip(s) ==
    LET nonspace == {i \in 1..Len(s) : ~IsSpace(s[i])}
    IN  IF nonspace = {} THEN <<>>
        ELSE LET first == CHOOSE i \in nonspace : \A j \in nonspace : i <= j
                 last  == CHOOSE i \in nonspace : \A j \in nonspace : j <= i
             IN  SubSeq(s, first, last)

\* s[p:p+len(w)] == w
MatchAt(s, p, w) ==
    /\ p >= 1
    /\ p + Len(w) - 1 <= Len(s)
    /\ SubSeq(s, p, p + Len(w) - 1) = w

startswith(s, w) == MatchAt(s, 1, w)

\* the Python test `w in s`
Contains(s, w) == \E p \in 1..(Len(s) + 1) : MatchAt(s, p, w)

\* str(n) for a natural number n
RECURSIVE str(_)
str(n) == IF n < 10 THEN <<Digits[n + 1]>>
          ELSE str(n \div 10) \o <<Digits[(n % 10) + 1]>>

\* last position of the maximal run of characters of the set cls that starts
\* at p (p - 1 when the run is empty)
RunEnd(s, p, cls) ==
    LET stops == {q \in p..(Len(s) + 1) : q = Len(s) + 1 \/ s[q] \notin cls}
    IN  (CHOOSE q \in stops : \A r \in stops : q <= r) - 1

(***************************************************************************)
(* String literals.                                                        *)
(***************************************************************************)
HOST ==
    <<"h", "t", "t", "p", "s", ":", "/", "/", "a", "p", "p", "s", ".", "d", "n", "r", ".", "w", "i", ".", "g", "o", "v">>

HTTP ==
    <<"h", "t", "t", "p">>

ACTIVITY_TYPE_LIT ==
    <<"A", "c", "t", "i", "v", "i", "t", "y", " ", "T", "y", "p", "e">>

DOCSEQNO_EQ ==
    <<"d", "o", "c", "S", "e", "q", "N", "o", "=">>

DOCSEQNO ==
    <<"d", "o", "c", "S", "e", "q", "N", "o">>

DOWNLOAD_DOCUMENT ==
    <<"d", "o", "w", "n", "l", "o", "a", "d", "-", "d", "o", "c", "u", "m", "e", "n", "t">>

UNKNOWN ==
    <<"U", "N", "K", "N", "O", "W", "N">>

Unknown ==
    <<"U", "n", "k", "n", "o", "w", "n">>

LUST ==
    <<"L", "U", "S", "T">>

kw_petroleum ==
    <<"p", "e", "t", "r", "o", "l", "e", "u", "m">>

kw_pfas ==
    <<"p", "f", "a", "s">>

kw_arsenic ==
    <<"a", "r", "s", "e", "n", "i", "c">>

kw_lead ==
    <<"l", "e", "a", "d">>

kw_mercury ==
    <<"m", "e", "r", "c", "u", "r", "y">>

kw_chromium ==
    <<"c", "h", "r", "o", "m", "i", "u", "m">>

NAME_PREFIX ==
    <<"S", "i", "t", "e", " ", "F", "i", "l", "e", " ", "D", "o", "c", "u", "m", "e", "n", "t", "a", "t", "i", "o", "n", " ", "(", "I", "D", ":", " ">>

SUMMARY_SITE ==
    <<"S", "i", "t", "e", ":", " ">>

SUMMARY_STATUS ==
    <<" ", "-", " ", "S", "t", "a", "t", "u", "s", ":", " ">>

Text1 ==
    <<"2", "7", "-", "1", "1", "-", "4", "7", " ", "E", "X", "A", "M", "P", "L", "E", " ", "S", "I", "T", "E", " ", "N", "A", "M", "E", " ", "A", "c", "t", "i", "v", "i", "t", "y", " ", "T", "y", "p", "e", " ", "L", "U", "S", "T">>

Text2 ==
    <<"n", "o", " ", "d", "a", "t", "a">>

Text3 ==
    <<"L", "e", "a", "d", " ", "c", "o", "n", "t", "a", "m", "i", "n", "a", "t", "i", "o", "n", " ", "d", "e", "t", "e", "c", "t", "e", "d">>

Text4 ==
    <<"0", "2", "-", "1", "3", "-", "5", " ", "A", " ", "A", "c", "t", "i", "v", "i", "t", "y", " ", "T", "y", "p", "e", " ", "P", "F", "A", "S", " ", "a", "n", "d", " ", "P", "e", "t", "r", "o", "l", "e", "u", "m">>

Text5 ==
    <<"0", "3", "-", "4", "5", "-", "6", "7", "8", " ", "L", "E", "A", "D", " ", "M", "I", "N", "E", "\n">>

Text6 ==
    <<"m", "i", "s", "l", "e", "a", "d", "i", "n", "g">>

Text7 ==
    <<"m", "e", "r", "c", "u", "r", "y">>

Text8 ==
    <<"1", "-", "2", "2", "-", "3", "3", " ", "X", " ", "S", "I", "T", "E", " ", "A", "c", "t", "i", "v", "i", "t", "y", " ", "T", "y", "p", "e">>

Href1 ==
    <<"/", "d", "o", "c", "u", "m", "e", "n", "t", "?", "d", "o", "c", "S", "e", "q", "N", "o", "=", "4", "8", "2", "1">>

Href2 ==
    <<"d", "o", "w", "n", "l", "o", "a", "d", "-", "d", "o", "c", "u", "m", "e", "n", "t", "?", "i", "d", "=", "3">>

Href3 ==
    <<"h", "t", "t", "p", "s", ":", "/", "/", "a", "p", "p", "s", ".", "d", "n", "r", ".", "w", "i", ".", "g", "o", "v", "/", "r", "r", "b", "o", "t", "w", "/", "d", "o", "w", "n", "l", "o", "a", "d", "-", "d", "o", "c", "u", "m", "e", "n", "t", "?", "d", "o", "c", "S", "e", "q", "N", "o", "=", "1", "2">>

Href4 ==
    <<"/", "a", "b", "o", "u", "t">>

Href5 ==
    <<"/", "x", "?", "d", "o", "c", "S", "e", "q", "N", "o", "=">>

Dsn1 ==
    <<"2", "7", "1", "1", "4", "7">>

Dsn2 ==
    <<"5">>

MSG_NO_KEY ==
    <<"B", "R", "O", "W", "S", "E", "R", "L", "E", "S", "S", "_", "A", "P", "I", "_", "K", "E", "Y", " ", "n", "o", "t", " ", "s", "e", "t", ".", " ", "A", "d", "d", " ", "i", "t", " ", "t", "o", " ", "e", "n", "v", "i", "r", "o", "n", "m", "e", "n", "t", " ", "v", "a", "r", "i", "a", "b", "l", "e", "s", ".">>

SUM_NO_KEY ==
    <<"B", "r", "o", "w", "s", "e", "r", "l", "e", "s", "s", " ", "A", "P", "I", " ", "k", "e", "y", " ", "r", "e", "q", "u", "i", "r", "e", "d", " ", "f", "o", "r", " ", "f", "u", "l", "l", " ", "s", "c", "r", "a", "p", "i", "n", "g", ".">>

MSG_API_ERROR ==
    <<"B", "r", "o", "w", "s", "e", "r", "l", "e", "s", "s", " ", "A", "P", "I", " ", "e", "r", "r", "o", "r", ":", " ">>

SUM_API_ERROR ==
    <<"F", "a", "i", "l", "e", "d", " ", "t", "o", " ", "r", "e", "n", "d", "e", "r", " ", "p", "a", "g", "e", ":", " ">>

MSG_TIMEOUT ==
    <<"R", "e", "q", "u", "e", "s", "t", " ", "t", "i", "m", "e", "d", " ", "o", "u", "t">>

SUM_TIMEOUT ==
    <<"P", "a", "g", "e", " ", "l", "o", "a", "d", " ", "t", "i", "m", "e", "d", " ", "o", "u", "t">>

SUM_ERROR ==
    <<"E", "r", "r", "o", "r", ":", " ">>

Body1 ==
    <<"U", "n", "a", "u", "t", "h", "o", "r", "i", "z", "e", "d">>

Exc1 ==
    <<"b", "o", "o", "m">>

Key1 ==
    <<"t", "o", "k">>

s_lust ==
    <<"l", "u", "s", "t">>

HTTP_SCHEME ==
    <<"h", "t", "t", "p", ":", "/", "/">>

HTTPS_SCHEME ==
    <<"h", "t", "t", "p", "s", ":", "/", "/">>

s_ERP ==
    <<"E", "R", "P">>

s_Open ==
    <<" ", "O", "p", "e", "n">>

s_closed ==
    <<"c", "l", "o", "s", "e", "d">>

(***************************************************************************)
(* The two regular expressions.                                            *)
(***************************************************************************)
\* character class [A-Z0-9\s'\-\.]
NameChar(c) == IsUpper(c) \/ IsDigit(c) \/ IsSpace(c) \/ c \in {"'", "-", "."}

\* (?:\s*Activity Type|\s*$) matches at position p
HeaderTerm(t, p) ==
    \E q \in p..(Len(t) + 1) :
        /\ \A j \in p..(q - 1) : IsSpace(t[j])
        /\ (MatchAt(t, q, ACTIVITY_TYPE_LIT) \/ q = Len(t) + 1)

\* the ends e of the lazy group ([A-Z][A-Z0-9\s'\-\.]+?) that starts at g
HeaderNameEnds(t, g) ==
    {e \in (g + 1)..Len(t) :
        /\ \A j \in (g + 1)..e : NameChar(t[j])
        /\ HeaderTerm(t, e + 1)}

\* the match of the header pattern that starts at position s, as
\* <<group(1), group(2)>>, or None
HeaderMatchAt(t, s) ==
    IF ~(/\ s + 6 <= Len(t)
         /\ IsDigit(t[s]) /\ IsDigit(t[s + 1]) /\ t[s + 2] = "-"
         /\ IsDigit(t[s + 3]) /\ IsDigit(t[s + 4]) /\ t[s + 5] = "-"
         /\ IsDigit(t[s + 6]))
    THEN None
    ELSE LET dEnd == RunEnd(t, s + 6, DigitSet)
             wEnd == RunEnd(t, dEnd + 1, Spaces)
             g    == wEnd + 1
         IN  IF wEnd > dEnd /\ g <= Len(t) /\ IsUpper(t[g])
                /\ HeaderNameEnds(t, g) # {}
             THEN LET e == CHOOSE x \in HeaderNameEnds(t, g) :
                               \A y \in HeaderNameEnds(t, g) : x <= y
                  IN  <<SubSeq(t, s, dEnd), SubSeq(t, g, e)>>
             ELSE None

\* re.search(r'(\d{2}-\d{2}-\d+)\s+([A-Z][A-Z0-9\s\'\-\.]+?)(?:\s*Activity Type|\s*$)', t)
header_search(t) ==
    LET starts == {s \in 1..Len(t) : HeaderMatchAt(t, s) # None}
    IN  IF starts = {} THEN None
        ELSE HeaderMatchAt(t, CHOOSE s \in starts : \A r \in starts : s <= r)

\* re.search(r'docSeqNo=(\d+)', href): group(1), or None
seq_search(href) ==
    LET starts == {p \in 1..Len(href) :
                      /\ MatchAt(href, p, DOCSEQNO_EQ)
                      /\ p + 9 <= Len(href)
                      /\ IsDigit(href[p + 9])}
    IN  IF starts = {} THEN None
        ELSE LET p == CHOOSE s \in starts : \A r \in starts : s <= r
             IN  SubSeq(href, p + 9, RunEnd(href, p + 9, DigitSet))

\* href=re.compile(r'download-document|docSeqNo') as a find_all filter
LinkMatches(href) ==
    Contains(href, DOWNLOAD_DOCUMENT) \/ Contains(href, DOCSEQNO)

(***************************************************************************)
(* Dictionaries: a dict is a function from its keys.                      *)
(***************************************************************************)
Put(d, k, v) == [x \in (DOMAIN d) \cup {k} |-> IF x = k THEN v ELSE d[x]]

Get(d, k, default) == IF k \in DOMAIN d THEN d[k] ELSE default

field_map ==
    <<"activity_type", "status", "jurisdiction", "dnr_region", "county",
      "location_name", "address", "municipality", "plss_description",
      "latitude", "longitude", "acres", "facility_id", "pecfa_number",
      "epa_id", "start_date", "end_date">>

(***************************************************************************)
(* The stages as functions of the locals.                                  *)
(***************************************************************************)
\* line 23
InitialSiteInfo(d) == [k \in {"dsn"} |-> d]

\* faulty variant of InitialRiskFlags: the sentinel is spelled "Unknown"
InitialRiskFlags_mixed_case == [k \in {"status_label"} |-> Unknown]

\* line 24
InitialRiskFlags == [k \in {"status_label"} |-> UNKNOWN]

\* faulty variant of KeyMissing: the credential check never fires
KeyMissing_never(key) == FALSE

\* line 27: `not BROWSERLESS_API_KEY`
KeyMissing(key) == key = <<>>

\* line 61
StatusFailed(status_code) == status_code # 200

\* lines 79-81
apply_header(info, header_match) ==
    IF header_match # None
    THEN Put(Put(info, "activity_number", header_match[1]),
             "location_name", strip(header_match[2]))
    ELSE info

\* line 85
input_values(inputs) == [i \in 1..Len(inputs) |-> strip(inputs[i])]

\* faulty variant of map_one: the `and values[idx]` test is missing, so that an empty
\* value is stored
map_one_stores_empty(info, values, idx) ==
    LET key == field_map[idx + 1]
    IN  IF idx < Len(values)
        THEN IF key = "location_name" /\ "location_name" \in DOMAIN info
             THEN info
             ELSE Put(info, key, values[idx + 1])
        ELSE info

\* faulty variant of map_one: the location_name guard is missing, so that position 5
\* overwrites the header's name
map_one_overwrites(info, values, idx) ==
    IF idx < Len(values) /\ values[idx + 1] # <<>>
    THEN Put(info, field_map[idx + 1], values[idx + 1])
    ELSE info

\* lines 109-113, one iteration of the loop
map_one(info, values, idx) ==
    LET key == field_map[idx + 1]
    IN  IF idx < Len(values) /\ values[idx + 1] # <<>>
        THEN IF key = "location_name" /\ "location_name" \in DOMAIN info
             THEN info
             ELSE Put(info, key, values[idx + 1])
        ELSE info

\* lines 108-113, the loop over field_map.items() from index idx on
RECURSIVE map_fields(_, _, _)
map_fields(info, values, idx) ==
    IF idx >= Len(field_map) THEN info
    ELSE map_fields(map_one(info, values, idx), values, idx + 1)

\* lines 116-117
status_label(info) ==
    LET status == upper(Get(info, "status", <<>>))
    IN  IF status # <<>> THEN status ELSE UNKNOWN

\* faulty variant of petroleum_rule: activity_type is compared without upper()
petroleum_rule_case_sensitive(info, text) ==
    \/ Get(info, "activity_type", <<>>) = LUST
    \/ Contains(lower(text), kw_petroleum)

\* line 121
petroleum_rule(info, text) ==
    \/ upper(Get(info, "activity_type", <<>>)) = LUST
    \/ Contains(lower(text), kw_petroleum)

\* line 123
pfas_rule(text) == Contains(lower(text), kw_pfas)

\* line 125
heavy_metals_rule(text) ==
    \E m \in {kw_arsenic, kw_lead, kw_mercury, kw_chromium} :
        Contains(lower(text), m)

\* faulty variant of set_flag: the flag is always written, with the rule's value
set_flag_dense(flags, name, rule) == Put(flags, name, rule)

\* `if rule: risk_flags[name] = True`: a flag is written only when its rule holds
set_flag(flags, name, rule) == IF rule THEN Put(flags, name, TRUE) ELSE flags

\* the k-th statement of lines 116-126
classify_step(flags, info, text, k) ==
    CASE k = 1 -> Put(flags, "status_label", status_label(info))
      [] k = 2 -> set_flag(flags, "petroleum", petroleum_rule(info, text))
      [] k = 3 -> set_flag(flags, "pfas", pfas_rule(text))
      [] k = 4 -> set_flag(flags, "heavy_metals", heavy_metals_rule(text))

\* lines 116-126, the first k statements
RECURSIVE classify_upto(_, _, _, _)
classify_upto(flags, info, text, k) ==
    IF k = 0 THEN flags
    ELSE classify_step(classify_upto(flags, info, text, k - 1), info, text, k)

\* lines 116-126
classify(flags, info, text) == classify_upto(flags, info, text, 4)

\* lines 132-133
absolute_href(href) ==
    IF ~startswith(href, HTTP) THEN HOST \o href ELSE href

\* lines 135-136
seq_no(href, docs) ==
    IF seq_search(href) # None THEN seq_search(href) ELSE str(Len(docs))

\* faulty variant of make_document: ids count from 1
make_document_one_based(href, docs) ==
    [id           |-> Len(docs) + 1,
     download_url |-> href,
     category     |-> "Site File",
     name         |-> NAME_PREFIX \o seq_no(href, docs) \o <<")">>,
     comment      |-> "DNR site documentation"]

\* lines 138-144
make_document(href, docs) ==
    [id           |-> Len(docs),
     download_url |-> href,
     category     |-> "Site File",
     name         |-> NAME_PREFIX \o seq_no(href, docs) \o <<")">>,
     comment      |-> "DNR site documentation"]

\* lines 130-144, the body of the loop for one anchor
collect_one(docs, link) ==
    IF link # <<>>
    THEN Append(docs, make_document(absolute_href(link), docs))
    ELSE docs

\* line 129: soup.find_all('a', href=...), in document order
RECURSIVE matching_links(_)
matching_links(anchors) ==
    IF anchors = <<>> THEN <<>>
    ELSE IF LinkMatches(Head(anchors))
         THEN <<Head(anchors)>> \o matching_links(Tail(anchors))
         ELSE matching_links(Tail(anchors))

\* lines 129-144, the loop over the matching anchors
RECURSIVE collect(_, _)
collect(docs, links) ==
    IF links = <<>> THEN docs
    ELSE collect(collect_one(docs, Head(links)), Tail(links))

\* lines 147-149
make_summary(info) ==
    SUMMARY_SITE \o Get(info, "location_name", Unknown)
        \o SUMMARY_STATUS \o Get(info, "status", Unknown)

\* the dict literal of every return statement
Result(info, flags, docs, summary, error) ==
    [site_info  |-> info,
     risk_flags |-> flags,
     documents  |-> docs,
     summary    |-> summary,
     error      |-> error]

\* faulty variant of Caught: only requests.Timeout is caught
Caught_timeout_only(kind) == kind = "Timeout"

\* lines 159 and 167: the exceptions an except clause of the try matches
Caught(kind) == kind \in {"Timeout", "Exception"}

\* faulty variant of handle: `except Exception` comes first and shadows the
\* requests.Timeout clause
handle_generic_first(kind, msg, info, flags, docs) ==
    Result(info, flags, docs, SUM_ERROR \o msg, msg)

\* lines 159-174: the except clauses, tried in order
handle(kind, msg, info, flags, docs) ==
    IF kind = "Timeout"
    THEN Result(info, flags, docs, SUM_TIMEOUT, MSG_TIMEOUT)
    ELSE Result(info, flags, docs, SUM_ERROR \o msg, msg)

\* response.text[:200]
Truncate(s) == SubSeq(s, 1, IF Len(s) < 200 THEN Len(s) ELSE 200)

(***************************************************************************)
(* The inputs: credentials, identifiers, fetch outcomes and pages.         *)
(***************************************************************************)
Keys == {<<>>, Key1}

Dsns == {Dsn1, Dsn2}

FailureStatuses == {404, 500}

Bodies == {Body1}

Messages == {<<>>, Exc1}

Texts == {<<>>, Text1, Text2, Text3, Text4, Text5, Text6, Text7, Text8}

Hrefs == {Href1, Href2, Href3, Href4, Href5}

\* <<raw activity type, raw status>> of the first two inputs
Profiles == <<<<LUST, s_Open>>, <<s_lust, <<>>>>, <<s_ERP, s_closed>>>>

\* the raw value attribute of the input at 0-based position i
RawValue(i) ==
    IF i % 2 = 1 THEN <<" ", "v">> \o str(i) \o <<" ">> ELSE <<"v">> \o str(i)

\* a page's n inputs: profile p in the first two, whitespace only at the
\* 1-based position b (none when b = 0)
Inputs(n, p, b) ==
    [i \in 1..n |-> IF i = 1 THEN Profiles[p][1]
                    ELSE IF i = 2 THEN Profiles[p][2]
                    ELSE IF i = b THEN <<" ", " ">>
                    ELSE RawValue(i - 1)]

Page(t, inputs, anchors) == [text |-> t, inputs |-> inputs, anchors |-> anchors]

InputPages ==
    UNION {{Page(t, Inputs(n, p, b), <<>>) :
                t \in {Text1, Text2}, p \in 1..3, b \in {0} \cup (3..n)} :
           n \in 0..MaxInputs}

AnchorLists == UNION {[1..k -> Hrefs] : k \in 0..MaxAnchors}

AnchorPages == {Page(Text2, Inputs(2, 1, 0), a) : a \in AnchorLists}

TextPages ==
    {Page(t, Inputs(n, p, 0), <<Href1>>) : t \in Texts, n \in {0, 7}, p \in 1..3}

Pages == InputPages \cup AnchorPages \cup TextPages

\* the value of response before requests.post has returned
NoResponse == [status_code |-> 0, text |-> <<>>]

\* the value of exc while no exception has been raised
NoException == [kind |-> "None", msg |-> <<>>, at |-> "None"]

(***************************************************************************)
(* The state machine.                                                      *)
(***************************************************************************)
Init ==
    /\ BROWSERLESS_API_KEY \in Keys
    /\ dsn \in Dsns
    /\ pc = "start"
    /\ response = NoResponse
    /\ soup = None
    /\ page_text = None
    /\ site_info = None
    /\ risk_flags = None
    /\ documents = None
    /\ result = None
    /\ requests_made = 0
    /\ ran = {}
    /\ exc = NoException

\* a return statement
Return(r) ==
    /\ result' = r
    /\ pc' = "done"

\* an exception of the given kind is raised inside the try block, with the
\* locals as given: the matching except clause returns, otherwise the
\* exception leaves the function
Raise(kind, msg, info, flags, docs) ==
    /\ exc' = [kind |-> kind, msg |-> msg, at |-> pc]
    /\ IF Caught(kind)
       THEN Return(handle(kind, msg, info, flags, docs))
       ELSE pc' = "raised" /\ result' = result

\* lines 21-34: the locals and the credential check
Enter ==
    /\ pc = "start"
    /\ site_info' = InitialSiteInfo(dsn)
    /\ risk_flags' = InitialRiskFlags
    /\ documents' = <<>>
    /\ IF KeyMissing(BROWSERLESS_API_KEY)
       THEN Return(Result(site_info', risk_flags', documents',
                          SUM_NO_KEY, MSG_NO_KEY))
       ELSE pc' = "post" /\ result' = result
    /\ UNCHANGED <<BROWSERLESS_API_KEY, dsn, response, soup, page_text,
                   requests_made, ran, exc>>

\* lines 54-59: requests.post returns a response
PostResponds ==
    /\ pc = "post"
    /\ requests_made' = requests_made + 1
    /\ \/ \E page \in Pages : response' = [status_code |-> 200, text |-> page]
       \/ \E s \in FailureStatuses, b \in Bodies :
              response' = [status_code |-> s, text |-> b]
    /\ pc' = "status"
    /\ UNCHANGED <<BROWSERLESS_API_KEY, dsn, soup, page_text, site_info,
                   risk_flags, documents, result, ran, exc>>

\* lines 54-59 and 159-174: requests.post raises
PostRaises ==
    /\ pc = "post"
    /\ requests_made' = requests_made + 1
    /\ \E kind \in {"Timeout", "Exception"}, msg \in Messages :
           Raise(kind, msg, site_info, risk_flags, documents)
    /\ UNCHANGED <<BROWSERLESS_API_KEY, dsn, response, soup, page_text,
                   site_info, risk_flags, documents, ran>>

\* lines 61-68
CheckStatus ==
    /\ pc = "status"
    /\ IF StatusFailed(response.status_code)
       THEN Return(Result(site_info, risk_flags, documents,
                          SUM_API_ERROR \o Truncate(response.text),
                          MSG_API_ERROR \o str(response.status_code)))
       ELSE pc' = "parse" /\ result' = result
    /\ UNCHANGED <<BROWSERLESS_API_KEY, dsn, response, soup, page_text,
                   site_info, risk_flags, documents, requests_made, ran, exc>>

\* lines 70-72
Parse ==
    /\ pc = "parse"
    /\ soup' = response.text
    /\ page_text' = response.text.text
    /\ pc' = "header"
    /\ ran' = ran \cup {"parse"}
    /\ UNCHANGED <<BROWSERLESS_API_KEY, dsn, response, site_info, risk_flags,
                   documents, result, requests_made, exc>>

\* lines 75-81
Header ==
    /\ pc = "header"
    /\ site_info' = apply_header(site_info, header_search(page_text))
    /\ pc' = "fields"
    /\ ran' = ran \cup {"header"}
    /\ UNCHANGED <<BROWSERLESS_API_KEY, dsn, response, soup, page_text,
                   risk_flags, documents, result, requests_made, exc>>

\* lines 84-113
MapFields ==
    /\ pc = "fields"
    /\ site_info' = map_fields(site_info, input_values(soup.inputs), 0)
    /\ pc' = "classify"
    /\ ran' = ran \cup {"fields"}
    /\ UNCHANGED <<BROWSERLESS_API_KEY, dsn, response, soup, page_text,
                   risk_flags, documents, result, requests_made, exc>>

\* lines 116-126
Classify ==
    /\ pc = "classify"
    /\ risk_flags' = classify(risk_flags, site_info, page_text)
    /\ pc' = "collect"
    /\ ran' = ran \cup {"classify"}
    /\ UNCHANGED <<BROWSERLESS_API_KEY, dsn, response, soup, page_text,
                   site_info, documents, result, requests_made, exc>>

\* lines 129-144
Collect ==
    /\ pc = "collect"
    /\ documents' = collect(documents, matching_links(soup.anchors))
    /\ pc' = "assemble"
    /\ ran' = ran \cup {"collect"}
    /\ UNCHANGED <<BROWSERLESS_API_KEY, dsn, response, soup, page_text,
                   site_info, risk_flags, result, requests_made, exc>>

\* lines 147-157
Assemble ==
    /\ pc = "assemble"
    /\ Return(Result(site_info, risk_flags, documents,
                     make_summary(site_info), None))
    /\ ran' = ran \cup {"assemble"}
    /\ UNCHANGED <<BROWSERLESS_API_KEY, dsn, response, soup, page_text,
                   site_info, risk_flags, documents, requests_made, exc>>

\* lines 70-85 and 167-174: the parser, the header search or the reading of
\* the input values raises; none of them has written to a local yet
StageRaises ==
    /\ pc \in {"parse", "header", "fields"}
    /\ \E msg \in Messages :
           Raise("Exception", msg, site_info, risk_flags, documents)
    /\ UNCHANGED <<BROWSERLESS_API_KEY, dsn, response, soup, page_text,
                   site_info, risk_flags, documents, requests_made, ran>>

\* lines 116-126 and 167-174: statement k + 1 of the classifier raises after
\* the first k statements have written their flags
ClassifyRaises ==
    /\ pc = "classify"
    /\ \E k \in 0..3, msg \in Messages :
           /\ risk_flags' = classify_upto(risk_flags, site_info, page_text, k)
           /\ Raise("Exception", msg, site_info, risk_flags', documents)
    /\ UNCHANGED <<BROWSERLESS_API_KEY, dsn, response, soup, page_text,
                   site_info, documents, requests_made, ran>>

\* lines 129-144 and 167-174: the collector raises after j documents have
\* been appended
CollectRaises ==
    /\ pc = "collect"
    /\ LET links == matching_links(soup.anchors)
       IN  \E j \in 0..(IF links = <<>> THEN 0 ELSE Len(links) - 1),
              msg \in Messages :
               /\ documents' = collect(documents, SubSeq(links, 1, j))
               /\ Raise("Exception", msg, site_info, risk_flags, documents')
    /\ UNCHANGED <<BROWSERLESS_API_KEY, dsn, response, soup, page_text,
                   site_info, risk_flags, requests_made, ran>>

Next ==
    \/ Enter
    \/ PostResponds
    \/ PostRaises
    \/ CheckStatus
    \/ Parse
    \/ Header
    \/ MapFields
    \/ Classify
    \/ Collect
    \/ Assemble
    \/ StageRaises
    \/ ClassifyRaises
    \/ CollectRaises

Spec == Init /\ [][Next]_vars

(***************************************************************************)
(* Properties.                                                             *)
(***************************************************************************)
ResultKeys == {"site_info", "risk_flags", "documents", "summary", "error"}

\* the call has returned without / with an error
Success == pc = "done" /\ result.error = None

Failed == pc = "done" /\ result.error # None

\* the Result carries no extracted data
Pristine(r) ==
    /\ r.site_info = [k \in {"dsn"} |-> dsn]
    /\ DOMAIN r.risk_flags = {"status_label"}
    /\ r.risk_flags["status_label"] = UNKNOWN
    /\ r.documents = <<>>

\* the trimmed values of the page's inputs
TrimmedValues == [i \in 1..Len(soup.inputs) |-> strip(soup.inputs[i])]

Keywords ==
    {kw_petroleum, kw_pfas, kw_arsenic, kw_lead, kw_mercury, kw_chromium}

NoKeyword(text) == \A w \in Keywords : ~Contains(lower(text), w)

\* the anchors of the page that match the document pattern, in document order
MatchingAnchors == SelectSeq(soup.anchors, LinkMatches)

----------------------------------------------------------------------------
\* C1: with an empty BROWSERLESS_API_KEY the call issues no HTTP request and
\* returns a Result with a non-null error, site_info exactly {dsn: dsn},
\* risk_flags exactly {status_label: "UNKNOWN"} and no documents.
C1_MissingCredential ==
    (pc = "done" /\ BROWSERLESS_API_KEY = <<>>) =>
        /\ requests_made = 0
        /\ result.error # None
        /\ Pristine(result)

C1_Witness ==
    /\ pc = "done"
    /\ BROWSERLESS_API_KEY = <<>>
    /\ result.error = MSG_NO_KEY

\* C2 (state part): no exception leaves the function, and a returned Result
\* has the five keys, its error being null exactly when the fetch returned
\* status 200 and the parse, classify, collect and assemble stages completed.
C2_WellFormed ==
    /\ pc # "raised"
    /\ pc = "done" =>
          /\ DOMAIN result = ResultKeys
          /\ (result.error = None) <=>
                (/\ response.status_code = 200
                 /\ {"parse", "classify", "collect", "assemble"} \subseteq ran)

\* the number of pipeline stages between a position and the return
StepsLeft(p) ==
    CASE p = "start" -> 9 [] p = "post" -> 8 [] p = "status" -> 7
      [] p = "parse" -> 6 [] p = "header" -> 5 [] p = "fields" -> 4
      [] p = "classify" -> 3 [] p = "collect" -> 2 [] p = "assemble" -> 1
      [] OTHER -> 0

\* C2: every invocation ends by returning a well-formed Result and never
\* propagates an exception: each step brings the call strictly closer to its
\* return, no exception leaves the function, and the returned Result has the
\* five keys with error null iff the fetch returned 200 and every later
\* stage completed.
C2_AlwaysReturns ==
    /\ [](C2_WellFormed)
    /\ [][StepsLeft(pc') < StepsLeft(pc)]_vars

C2_Witness ==
    /\ Failed
    /\ response.status_code = 200
    /\ exc.at = "collect"
    /\ DOMAIN result = ResultKeys

\* the single request timed out, raised, or came back with a status other
\* than 200
FetchFailed ==
    /\ pc = "done"
    /\ \/ exc.at = "post"
       \/ requests_made > 0 /\ exc.kind = "None" /\ response.status_code # 200

\* C3: when the fetch fails no later stage runs and no second request is
\* issued; the Result carries only {dsn}, {status_label: "UNKNOWN"} and no
\* documents; a timeout gives exactly "Request timed out" and a status other
\* than 200 gives an error that carries the status code.
C3_FetchFailure ==
    FetchFailed =>
        /\ ran = {}
        /\ page_text = None
        /\ requests_made = 1
        /\ Pristine(result)
        /\ exc.kind = "Timeout" => result.error = MSG_TIMEOUT
        /\ exc.kind = "None" =>
               result.error = MSG_API_ERROR \o str(response.status_code)

C3_Witness ==
    /\ FetchFailed
    /\ exc.kind = "Timeout"
    /\ exc.msg = Exc1
    /\ result.error = MSG_TIMEOUT

\* C4 (as claimed): every returned Result with a non-null error carries
\* exactly {dsn}, {status_label: "UNKNOWN"} and no documents, also when the
\* exception was raised after the fetch succeeded.
C4_NoPartialData == Failed => Pristine(result)

\* the failure happened before the extractor, the classifier or the
\* collector wrote to a local
FailedBeforeExtraction ==
    /\ Failed
    /\ \/ requests_made = 0
       \/ response.status_code # 200
       \/ exc.at \in {"post", "parse", "header"}

\* C4 (amended): a Result with a non-null error carries exactly {dsn},
\* {status_label: "UNKNOWN"} and no documents when the failure is the missing
\* credential, a fetch failure, or an exception raised while parsing or
\* searching the header; an exception raised later returns the error together
\* with the site_info, risk_flags and documents written up to that point.
C4_PristineBeforeExtraction ==
    /\ FailedBeforeExtraction => Pristine(result)
    /\ Failed =>
          /\ result.site_info = site_info
          /\ result.risk_flags = risk_flags
          /\ result.documents = documents

C4_Witness ==
    /\ Failed
    /\ exc.at = "parse"
    /\ Len(response.text.inputs) > 0
    /\ Pristine(result)

\* C5: on the success path, for every position i in 0..16 whose field is not
\* location_name with a matched header, site_info has field_map[i] iff the
\* page has an input at position i whose trimmed value is non-empty, and then
\* holds that value; inputs from position 17 on add nothing, and no
\* positional field is stored empty.
C5_PositionalMapping ==
    Success =>
        LET values == TrimmedValues
            info   == result.site_info
            header == header_search(page_text) # None
        IN  /\ \A i \in 0..16 :
                  LET f == field_map[i + 1]
                  IN  (f # "location_name" \/ ~header) =>
                          /\ (f \in DOMAIN info) <=>
                                 (i < Len(values) /\ values[i + 1] # <<>>)
                          /\ (f \in DOMAIN info) => info[f] = values[i + 1]
            /\ DOMAIN info \subseteq
                   {"dsn", "activity_number"} \cup {field_map[j] : j \in 1..17}
            /\ \A j \in 1..17 :
                  field_map[j] \in DOMAIN info => info[field_map[j]] # <<>>

C5_Witness ==
    /\ Success
    /\ Len(soup.inputs) > 17
    /\ header_search(page_text) = None
    /\ \E i \in 1..17 : TrimmedValues[i] = <<>>
    /\ "end_date" \in DOMAIN result.site_info

\* C6: on the success path, when the header regex matched, location_name is
\* the name captured from the header whatever the input at index 5 holds;
\* when it did not match, location_name is the trimmed value at index 5 if
\* that is non-empty and is absent otherwise.
C6_HeaderPrecedence ==
    Success =>
        LET values == TrimmedValues
            info   == result.site_info
            m      == header_search(page_text)
        IN  /\ m # None =>
                  /\ "location_name" \in DOMAIN info
                  /\ info["location_name"] = strip(m[2])
            /\ m = None =>
                  /\ ("location_name" \in DOMAIN info) <=>
                         (Len(values) >= 6 /\ values[6] # <<>>)
                  /\ ("location_name" \in DOMAIN info) =>
                         info["location_name"] = values[6]

C6_Witness ==
    /\ Success
    /\ header_search(page_text) # None
    /\ Len(soup.inputs) >= 6
    /\ TrimmedValues[6] # <<>>
    /\ TrimmedValues[6] # result.site_info["location_name"]

\* C7 (as claimed): whenever the page text contains none of the keywords, the
\* returned risk_flags holds only status_label, whatever site_info holds.
C7_NoKeywordOnlyStatusLabel ==
    (Success /\ NoKeyword(page_text)) =>
        DOMAIN result.risk_flags = {"status_label"}

\* C7 (amended): whenever the page text contains none of the keywords,
\* risk_flags holds only status_label if activity_type is absent or is not
\* "LUST" case-insensitively, and holds status_label and petroleum if
\* activity_type is "LUST" case-insensitively.
C7_NoKeywordNoLust ==
    (Success /\ NoKeyword(page_text)) =>
        IF upper(Get(result.site_info, "activity_type", <<>>)) = LUST
        THEN DOMAIN result.risk_flags = {"status_label", "petroleum"}
        ELSE DOMAIN result.risk_flags = {"status_label"}

C7_Witness ==
    /\ Success
    /\ NoKeyword(page_text)
    /\ "activity_type" \in DOMAIN result.site_info
    /\ result.site_info["activity_type"] = s_ERP
    /\ DOMAIN result.risk_flags = {"status_label"}

\* C8: risk_flags of every returned Result has status_label, and any other
\* key is one of petroleum, pfas, heavy_metals with the value true; on the
\* success path status_label is the uppercase of site_info.status, or
\* "UNKNOWN" without a status, and each of the three keys is present iff its
\* rule holds.
C8_SparseFlags ==
    pc = "done" =>
        LET flags == result.risk_flags
            info  == result.site_info
            text  == lower(page_text)
        IN  /\ "status_label" \in DOMAIN flags
            /\ DOMAIN flags \subseteq
                   {"status_label", "petroleum", "pfas", "heavy_metals"}
            /\ \A k \in (DOMAIN flags) \ {"status_label"} : flags[k] = TRUE
            /\ Success =>
                  /\ flags["status_label"] =
                         (IF "status" \in DOMAIN info
                          THEN upper(info["status"]) ELSE UNKNOWN)
                  /\ ("petroleum" \in DOMAIN flags) <=>
                         (\/ ("activity_type" \in DOMAIN info
                                /\ upper(info["activity_type"]) = LUST)
                          \/ Contains(text, kw_petroleum))
                  /\ ("pfas" \in DOMAIN flags) <=> Contains(text, kw_pfas)
                  /\ ("heavy_metals" \in DOMAIN flags) <=>
                         (\/ Contains(text, kw_arsenic)
                          \/ Contains(text, kw_lead)
                          \/ Contains(text, kw_mercury)
                          \/ Contains(text, kw_chromium))

C8_Witness ==
    /\ Success
    /\ "activity_type" \in DOMAIN result.site_info
    /\ result.site_info["activity_type"] = s_lust
    /\ "status" \notin DOMAIN result.site_info
    /\ result.risk_flags["status_label"] = UNKNOWN
    /\ "petroleum" \in DOMAIN result.risk_flags
    /\ "heavy_metals" \in DOMAIN result.risk_flags
    /\ "pfas" \notin DOMAIN result.risk_flags

\* C9: on the success path documents holds one Document per matching anchor,
\* in document order, the i-th with id i counted from 0; its name embeds the
\* digits of docSeqNo=<digits> when the link has them and its own id written
\* as a string otherwise.  In every returned Result the ids are 0, 1, 2, ...
C9_DocumentIds ==
    pc = "done" =>
        /\ \A i \in 1..Len(result.documents) : result.documents[i].id = i - 1
        /\ Success =>
              LET docs  == result.documents
                  links == MatchingAnchors
              IN  /\ Len(docs) = Len(links)
                  /\ \A i \in 1..Len(docs) :
                        /\ docs[i].download_url \in {links[i], HOST \o links[i]}
                        /\ docs[i].name = NAME_PREFIX
                               \o (IF seq_search(links[i]) # None
                                   THEN seq_search(links[i])
                                   ELSE str(docs[i].id))
                               \o <<")">>

C9_Witness ==
    /\ Success
    /\ Len(result.documents) = 3
    /\ Len(soup.anchors) = 3
    /\ seq_search(soup.anchors[1]) # None
    /\ seq_search(soup.anchors[3]) = None
    /\ result.documents[3].name = NAME_PREFIX \o <<"2", ")">>

\* an absolute URL: it names its scheme and host
IsAbsolute(href) ==
    startswith(href, HTTP_SCHEME) \/ startswith(href, HTTPS_SCHEME)

\* the target resolved against the host: absolute targets unchanged, relative
\* ones placed under the root of https://apps.dnr.wi.gov
Resolved(href) ==
    IF IsAbsolute(href) THEN href
    ELSE IF href[1] = "/" THEN HOST \o href
    ELSE HOST \o <<"/">> \o href

\* C10: every collected Document's download_url is absolute: an absolute
\* target is kept, and a relative target, with or without a leading slash, is
\* resolved to a well-formed URL on https://apps.dnr.wi.gov with the
\* target's path and query.
C10_AbsoluteUrls ==
    Success =>
        /\ Len(result.documents) = Len(MatchingAnchors)
        /\ \A i \in 1..Len(result.documents) :
              result.documents[i].download_url = Resolved(MatchingAnchors[i])

====
